---- MODULE Spec2Model ----
(***************************************************************************)
(* Model of streamlit_app.py: the AgenticAcademicSearcher query            *)
(* orchestrator (quick_search, comprehensive_search) and the Streamlit     *)
(* shell main() that drives it, one script rerun at a time.                *)
(*                                                                         *)
(* Two specifications share the orchestrator's actions:                    *)
(*   Spec       the orchestrator called through its public methods with    *)
(*              any question and any positive iteration cap;               *)
(*   ShellSpec  the page: reruns of main() on one session, which call the  *)
(*              orchestrator with the sidebar's settings.                  *)
(* The upstream (client.messages.create) is the environment: each request  *)
(* is answered by a response drawn from Responses, or fails.               *)
(* progress_callback only draws the progress bar and is left out.          *)
(***************************************************************************)
EXTENDS Integers, Sequences, FiniteSets, TLC

\* ------------------------------------------------------------------ bounds
\* Largest max_iterations a direct caller passes.
MaxCap == 3
\* Content blocks the upstream sends over one invocation, all responses together.
MaxBlocks == 2
\* Searches counted in one session before the model stops clicking.
MaxSearches == 2
\* Largest slider position the model explores.
MaxSlider == 5

\* ------------------------------------------------------- program constants
SliderMin == 5
SliderMax == 15

None == "None"

INCOMPLETE == "Search incomplete - max iterations reached"

SearchTypes == {"Quick Search", "Comprehensive Search"}

\* The selectbox's first option, which is also the method's default.
TimeFrames == {"last 3 years"}

\* focus_areas: absent, or the stripped non-empty lines of the text area.
FocusChoices == {None, <<"f1", "f2">>}

MODEL == "claude-sonnet-4-5-20250929"

\* The slider's positions, cut at MaxSlider.
SliderValues == {v \in SliderMin..SliderMax : v <= MaxSlider}

\* ------------------------------------------------------------ environment
\* Values the user types.
Questions == {"", "q"}
ApiKeys == {"", "K1", "K2"}

\* Termination signals of the upstream; max_tokens stands for every signal
\* other than end_turn and tool_use.
StopReasons == {"end_turn", "tool_use", "max_tokens"}

\* Content blocks as the model produces them, before the upstream stamps
\* tool_use blocks with their identifier.
TextShapes ==
  { [type |-> "text", text |-> t] : t \in {"Part A. ", "Part B.", ""} }

ToolUseShapes ==
  { [type |-> "tool_use", name |-> "web_search", input |-> [query |-> q]]
      : q \in {"q1", "q2"} }
  \cup { [type |-> "tool_use", name |-> "calculator", input |-> [expr |-> "1+1"]] }

BlockShapes == TextShapes \cup ToolUseShapes

Contents(n) == UNION { [1..k -> BlockShapes] : k \in 0..n }

\* The upstream's identifiers are unique: block j of the response to
\* request c gets identifier <<c, j>>.
StampIds(shape, c) ==
  [ j \in DOMAIN shape |->
      IF shape[j].type = "tool_use"
        THEN [type |-> "tool_use", id |-> <<c, j>>,
              name |-> shape[j].name, input |-> shape[j].input]
        ELSE shape[j] ]

HasToolUse(content) == \E j \in DOMAIN content : content[j].type = "tool_use"

\* The responses to request c when the upstream may still send n blocks.
\* A response that ends its turn naturally invokes no tool.
Responses(n, c) ==
  { r \in { [stop_reason |-> s, content |-> StampIds(shape, c)]
               : s \in StopReasons, shape \in Contents(n) }
      : r.stop_reason = "end_turn" => ~HasToolUse(r.content) }

\* ----------------------------------------------------------- orchestrator
\* dict.get(key): the value, or None when the key is absent.
Get(d, key) == IF key \in DOMAIN d THEN d[key] ELSE None

RECURSIVE Join(_)
Join(areas) ==
  IF areas = <<>> THEN ""
  ELSE IF Len(areas) = 1 THEN areas[1]
  ELSE areas[1] \o ", " \o Join(Tail(areas))

\* The prompt of comprehensive_search.
UserPrompt(research_question, focus_areas, time_frame) ==
  "Research Question: " \o research_question \o "\n"
    \o (IF focus_areas # None /\ focus_areas # <<>>
          THEN "Focus Areas: " \o Join(focus_areas) \o "\n" ELSE "")
    \o "Time Frame: " \o time_frame \o "\n\n"
    \o "Please conduct a comprehensive academic literature search"

\* quick_search's prompt.
QuickPrompt(query) == "Search for and summarize: " \o query

InitialMetadata(research_question) ==
  [ start_time |-> "now",
    research_question |-> research_question,
    searches_performed |-> <<>>,
    tool_uses |-> 0 ]

QuickResultTextOnlyFirst(content) ==
  LET texts == SelectSeq(content, LAMBDA b : b.type = "text")
  IN IF texts = <<>> THEN "" ELSE texts[1].text

\* quick_search: result += block.text for every text block.
RECURSIVE QuickResult(_)
QuickResult(content) ==
  IF content = <<>> THEN ""
  ELSE (IF Head(content).type = "text" THEN Head(content).text ELSE "")
         \o QuickResult(Tail(content))

RECURSIVE FinalTextReversed(_)
FinalTextReversed(content) ==
  IF content = <<>> THEN ""
  ELSE FinalTextReversed(Tail(content))
         \o (IF Head(content).type = "text" THEN Head(content).text ELSE "")

\* comprehensive_search: final_text += block.text for every text block.
RECURSIVE FinalText(_)
FinalText(content) ==
  IF content = <<>> THEN ""
  ELSE (IF Head(content).type = "text" THEN Head(content).text ELSE "")
         \o FinalText(Tail(content))

LoopGuardInclusive(it, cap) == it <= cap

\* while iteration < max_iterations
LoopGuard(it, cap) == it < cap

StampCompletionOffByOne(metadata, it) ==
  metadata @@ ("end_time" :> "now") @@ ("total_iterations" :> it - 1)

\* search_metadata["end_time"] = ...; search_metadata["total_iterations"] = iteration
StampCompletion(metadata, it) ==
  metadata @@ ("end_time" :> "now") @@ ("total_iterations" :> it)

RECURSIVE ToolResultsSearchOnly(_)
ToolResultsSearchOnly(content) ==
  IF content = <<>> THEN <<>>
  ELSE (IF Head(content).type = "tool_use" /\ Head(content).name = "web_search"
          THEN << [type |-> "tool_result", tool_use_id |-> Head(content).id,
                   content |-> "Tool executed"] >>
          ELSE <<>>)
         \o ToolResultsSearchOnly(Tail(content))

\* The tool_results list: one tool_result per tool_use block, in order.
RECURSIVE ToolResults(_)
ToolResults(content) ==
  IF content = <<>> THEN <<>>
  ELSE (IF Head(content).type = "tool_use"
          THEN << [type |-> "tool_result", tool_use_id |-> Head(content).id,
                   content |-> "Tool executed"] >>
          ELSE <<>>)
         \o ToolResults(Tail(content))

\* The metadata after the loop over response.content: tool_uses += 1 per
\* tool_use block, and the query of every web_search block appended.
RECURSIVE RecordToolUses(_, _)
RecordToolUses(metadata, content) ==
  IF content = <<>> THEN metadata
  ELSE LET block == Head(content)
           counted ==
             IF block.type = "tool_use"
               THEN [metadata EXCEPT
                       !.tool_uses = @ + 1,
                       !.searches_performed =
                          IF block.name = "web_search"
                            THEN Append(@, Get(block.input, "query")) ELSE @]
               ELSE metadata
       IN RecordToolUses(counted, Tail(content))

\* ------------------------------------------------------------------ state
VARIABLES
  session_state,   \* st.session_state: api_key, searcher, search_count
  api_key,         \* the sidebar's text input in the current rerun
  shell_pc,        \* "idle" | "running" | "done": where main() is
  view,            \* what the page shows after the last rerun
  count_before,    \* search_count when the current rerun clicked search
  caller,          \* "none" | "direct" | "shell": who called the searcher
  client_key,      \* the api_key of the searcher whose method runs
  method,          \* "quick" | "comp"
  question,        \* query / research_question
  max_iterations,
  iteration,
  messages,        \* the conversation
  search_metadata,
  calls,           \* client.messages.create calls of this invocation
  response,        \* the last response received
  result,          \* the value returned
  pc,              \* "idle" | "loop" | "await" | "returned" | "raised"
  blocks_seen,     \* content blocks received in this invocation
  queries_seen,    \* query of every web_search tool_use block received
  other_seen,      \* a signal other than end_turn / tool_use was received
  completion_call  \* the request on which end_turn first arrived, or 0

shell_vars == <<session_state, api_key, shell_pc, view, count_before>>

call_vars == <<caller, client_key, method, question, max_iterations>>

vars == <<session_state, api_key, shell_pc, view, count_before, caller,
          client_key, method, question, max_iterations, iteration, messages,
          search_metadata, calls, response, result, pc, blocks_seen,
          queries_seen, other_seen, completion_call>>

NoResponse == [stop_reason |-> None, content |-> <<>>]

Init ==
  /\ session_state = <<>>
  /\ api_key = ""
  /\ shell_pc = "idle"
  /\ view = "blank"
  /\ count_before = 0
  /\ caller = "none"
  /\ client_key = None
  /\ method = None
  /\ question = ""
  /\ max_iterations = 0
  /\ iteration = 0
  /\ messages = <<>>
  /\ search_metadata = <<>>
  /\ calls = 0
  /\ response = NoResponse
  /\ result = None
  /\ pc = "idle"
  /\ blocks_seen = 0
  /\ queries_seen = <<>>
  /\ other_seen = FALSE
  /\ completion_call = 0

\* The web_search queries of a response's tool_use blocks, in order.
RECURSIVE QueriesOf(_)
QueriesOf(content) ==
  IF content = <<>> THEN <<>>
  ELSE (IF Head(content).type = "tool_use" /\ Head(content).name = "web_search"
          THEN << Get(Head(content).input, "query") >> ELSE <<>>)
         \o QueriesOf(Tail(content))

\* Entry of quick_search up to and including its one request.
EnterQuick(who, key, query) ==
  /\ caller' = who
  /\ client_key' = key
  /\ method' = "quick"
  /\ question' = query
  /\ max_iterations' = 0
  /\ iteration' = 0
  /\ messages' = << [role |-> "user", content |-> QuickPrompt(query)] >>
  /\ search_metadata' = <<>>
  /\ calls' = 1
  /\ response' = NoResponse
  /\ result' = None
  /\ pc' = "await"
  /\ blocks_seen' = 0
  /\ queries_seen' = <<>>
  /\ other_seen' = FALSE
  /\ completion_call' = 0

\* Entry of comprehensive_search up to the first test of the loop.
EnterComprehensive(who, key, research_question, focus_areas, time_frame, cap) ==
  /\ caller' = who
  /\ client_key' = key
  /\ method' = "comp"
  /\ question' = research_question
  /\ max_iterations' = cap
  /\ iteration' = 0
  /\ messages' = << [role |-> "user",
                     content |-> UserPrompt(research_question, focus_areas,
                                            time_frame)] >>
  /\ search_metadata' = InitialMetadata(research_question)
  /\ calls' = 0
  /\ response' = NoResponse
  /\ result' = None
  /\ pc' = "loop"
  /\ blocks_seen' = 0
  /\ queries_seen' = <<>>
  /\ other_seen' = FALSE
  /\ completion_call' = 0

\* The loop test passes: iteration += 1 and the request goes out.
SendRequest ==
  /\ pc = "loop"
  /\ method = "comp"
  /\ LoopGuard(iteration, max_iterations)
  /\ iteration' = iteration + 1
  /\ calls' = calls + 1
  /\ pc' = "await"
  /\ UNCHANGED <<shell_vars, call_vars, messages, search_metadata, response,
                 result, blocks_seen, queries_seen, other_seen,
                 completion_call>>

\* stop_reason == "end_turn": the success exit.
OnEndTurn ==
  /\ pc = "await"
  /\ method = "comp"
  /\ \E r \in Responses(MaxBlocks - blocks_seen, calls) :
       /\ r.stop_reason = "end_turn"
       /\ response' = r
       /\ blocks_seen' = blocks_seen + Len(r.content)
       /\ queries_seen' = queries_seen \o QueriesOf(r.content)
       /\ completion_call' = IF completion_call = 0 THEN calls ELSE completion_call
       /\ search_metadata' = StampCompletion(search_metadata, iteration)
       /\ result' = [findings |-> FinalText(r.content),
                     metadata |-> search_metadata']
  /\ pc' = "returned"
  /\ UNCHANGED <<shell_vars, call_vars, iteration, messages, calls, other_seen>>

\* stop_reason == "tool_use": the assistant's blocks and their placeholder
\* results are appended, and the loop goes on.
OnToolUse ==
  /\ pc = "await"
  /\ method = "comp"
  /\ \E r \in Responses(MaxBlocks - blocks_seen, calls) :
       /\ r.stop_reason = "tool_use"
       /\ response' = r
       /\ blocks_seen' = blocks_seen + Len(r.content)
       /\ queries_seen' = queries_seen \o QueriesOf(r.content)
       /\ search_metadata' = RecordToolUses(search_metadata, r.content)
       /\ messages' = messages
            \o << [role |-> "assistant", content |-> r.content],
                  [role |-> "user", content |-> ToolResults(r.content)] >>
  /\ pc' = "loop"
  /\ UNCHANGED <<shell_vars, call_vars, iteration, calls, result, other_seen,
                 completion_call>>

\* Any other stop_reason: neither branch is taken and the loop goes on.
OnOtherSignal ==
  /\ pc = "await"
  /\ method = "comp"
  /\ \E r \in Responses(MaxBlocks - blocks_seen, calls) :
       /\ r.stop_reason \notin {"end_turn", "tool_use"}
       /\ response' = r
       /\ blocks_seen' = blocks_seen + Len(r.content)
       /\ queries_seen' = queries_seen \o QueriesOf(r.content)
  /\ other_seen' = TRUE
  /\ pc' = "loop"
  /\ UNCHANGED <<shell_vars, call_vars, iteration, messages, search_metadata,
                 calls, result, completion_call>>

\* The loop test fails: the cap-exhaustion return.
ReturnIncomplete ==
  /\ pc = "loop"
  /\ method = "comp"
  /\ ~LoopGuard(iteration, max_iterations)
  /\ result' = [findings |-> INCOMPLETE, metadata |-> search_metadata]
  /\ pc' = "returned"
  /\ UNCHANGED <<shell_vars, call_vars, iteration, messages, search_metadata,
                 calls, response, blocks_seen, queries_seen, other_seen,
                 completion_call>>

\* quick_search receives its response and returns the text.
QuickReceive ==
  /\ pc = "await"
  /\ method = "quick"
  /\ \E r \in Responses(MaxBlocks - blocks_seen, calls) :
       /\ response' = r
       /\ blocks_seen' = blocks_seen + Len(r.content)
       /\ queries_seen' = queries_seen \o QueriesOf(r.content)
       /\ result' = QuickResult(r.content)
  /\ pc' = "returned"
  /\ UNCHANGED <<shell_vars, call_vars, iteration, messages, search_metadata,
                 calls, other_seen, completion_call>>

\* client.messages.create raises; neither method catches it.
UpstreamError ==
  /\ pc = "await"
  /\ pc' = "raised"
  /\ UNCHANGED <<shell_vars, call_vars, iteration, messages, search_metadata,
                 calls, response, result, blocks_seen, queries_seen,
                 other_seen, completion_call>>

\* ------------------------------------------------- the methods called directly
CallQuick ==
  /\ caller = "none"
  /\ \E q \in Questions : EnterQuick("direct", "K1", q)
  /\ UNCHANGED shell_vars

CallComprehensive ==
  /\ caller = "none"
  /\ \E q \in Questions, cap \in 1..MaxCap, tf \in TimeFrames,
        focus \in FocusChoices :
       EnterComprehensive("direct", "K1", q, focus, tf, cap)
  /\ UNCHANGED shell_vars

Next ==
  \/ CallQuick
  \/ CallComprehensive
  \/ SendRequest
  \/ OnEndTurn
  \/ OnToolUse
  \/ OnOtherSignal
  \/ ReturnIncomplete
  \/ QuickReceive
  \/ UpstreamError

Spec == Init /\ [][Next]_vars

\* ------------------------------------------------------------------ shell
\* AgenticAcademicSearcher.__init__
NewSearcher(key) == [api_key |-> key, model |-> MODEL]

\* d[k] = v on a dict.
Set(d, k, v) == [x \in DOMAIN d \cup {k} |-> IF x = k THEN v ELSE d[x]]

\* The script's last lines: search_count starts at 0 in a new session.
EnsureCount(ss) ==
  IF "search_count" \notin DOMAIN ss THEN Set(ss, "search_count", 0) ELSE ss

\* The sidebar: a key that was typed is stored in the session.
StoreKey(ss, key) == IF key # "" THEN Set(ss, "api_key", key) ELSE ss

\* "Initialize searcher": built when the session has none, or when the
\* session's api_key differs from the one typed.
InitSearcher(ss, key) ==
  IF "searcher" \notin DOMAIN ss \/ Get(ss, "api_key") # key
    THEN Set(Set(ss, "searcher", NewSearcher(key)), "api_key", key)
    ELSE ss

\* The session when main() reaches the search interface.
SessionAtSearch(ss, key) == InitSearcher(StoreKey(EnsureCount(ss), key), key)

\* No searcher method runs in this rerun.
ClearCall ==
  /\ caller' = "none"
  /\ client_key' = None
  /\ method' = None
  /\ question' = ""
  /\ max_iterations' = 0
  /\ iteration' = 0
  /\ messages' = <<>>
  /\ search_metadata' = <<>>
  /\ calls' = 0
  /\ response' = NoResponse
  /\ result' = None
  /\ pc' = "idle"
  /\ blocks_seen' = 0
  /\ queries_seen' = <<>>
  /\ other_seen' = FALSE
  /\ completion_call' = 0

\* A rerun with no key typed: main() returns after the info box.
RerunNoKey ==
  /\ shell_pc # "running"
  /\ api_key' = ""
  /\ session_state' = StoreKey(EnsureCount(session_state), "")
  /\ view' = "need_key"
  /\ shell_pc' = "done"
  /\ UNCHANGED count_before
  /\ ClearCall

\* A rerun that shows the search form; no button was clicked.
RerunForm ==
  /\ shell_pc # "running"
  /\ \E key \in ApiKeys \ {""} :
       /\ api_key' = key
       /\ session_state' = SessionAtSearch(session_state, key)
  /\ view' = "form"
  /\ shell_pc' = "done"
  /\ UNCHANGED count_before
  /\ ClearCall

\* The search button clicked on an empty question: a warning, no call.
RerunEmptyQuestion ==
  /\ shell_pc # "running"
  /\ \E key \in ApiKeys \ {""} :
       /\ api_key' = key
       /\ session_state' = SessionAtSearch(session_state, key)
  /\ view' = "warning"
  /\ shell_pc' = "done"
  /\ UNCHANGED count_before
  /\ ClearCall

\* "Quick Search" clicked with a question: searcher.quick_search(query).
RerunQuickSearch ==
  /\ shell_pc # "running"
  /\ EnsureCount(session_state)["search_count"] < MaxSearches
  /\ \E key \in ApiKeys \ {""}, q \in Questions \ {""} :
       /\ api_key' = key
       /\ session_state' = SessionAtSearch(session_state, key)
       /\ EnterQuick("shell", session_state'["searcher"].api_key, q)
  /\ count_before' = session_state'["search_count"]
  /\ view' = "progress"
  /\ shell_pc' = "running"

\* "Comprehensive Search" clicked with a question:
\* searcher.comprehensive_search(...) with the sidebar's settings.
RerunComprehensiveSearch ==
  /\ shell_pc # "running"
  /\ EnsureCount(session_state)["search_count"] < MaxSearches
  /\ \E key \in ApiKeys \ {""}, q \in Questions \ {""},
        cap \in SliderValues, tf \in TimeFrames, focus \in FocusChoices :
       /\ api_key' = key
       /\ session_state' = SessionAtSearch(session_state, key)
       /\ EnterComprehensive("shell", session_state'["searcher"].api_key,
                             q, focus, tf, cap)
  /\ count_before' = session_state'["search_count"]
  /\ view' = "progress"
  /\ shell_pc' = "running"

\* quick_search returned: the result is shown and the search counted.
ShowQuickResults ==
  /\ shell_pc = "running"
  /\ method = "quick"
  /\ pc = "returned"
  /\ view' = "results"
  /\ session_state' =
       Set(session_state, "search_count", Get(session_state, "search_count") + 1)
  /\ shell_pc' = "done"
  /\ UNCHANGED <<api_key, count_before, call_vars, iteration, messages,
                 search_metadata, calls, response, result, pc, blocks_seen,
                 queries_seen, other_seen, completion_call>>

\* comprehensive_search returned and the three metrics can be read.
ShowComprehensiveResults ==
  /\ shell_pc = "running"
  /\ method = "comp"
  /\ pc = "returned"
  /\ {"searches_performed", "tool_uses", "total_iterations"}
       \subseteq DOMAIN result.metadata
  /\ view' = "results"
  /\ session_state' =
       Set(session_state, "search_count", Get(session_state, "search_count") + 1)
  /\ shell_pc' = "done"
  /\ UNCHANGED <<api_key, count_before, call_vars, iteration, messages,
                 search_metadata, calls, response, result, pc, blocks_seen,
                 queries_seen, other_seen, completion_call>>

\* comprehensive_search returned, but reading a metric raises KeyError,
\* which the except clause reports as a failed search.
MetricKeyError ==
  /\ shell_pc = "running"
  /\ method = "comp"
  /\ pc = "returned"
  /\ ~({"searches_performed", "tool_uses", "total_iterations"}
         \subseteq DOMAIN result.metadata)
  /\ view' = "failed"
  /\ shell_pc' = "done"
  /\ UNCHANGED <<session_state, api_key, count_before, call_vars, iteration,
                 messages, search_metadata, calls, response, result, pc,
                 blocks_seen, queries_seen, other_seen, completion_call>>

\* The searcher's method raised: the except clause reports it.
SearchFailed ==
  /\ shell_pc = "running"
  /\ pc = "raised"
  /\ view' = "failed"
  /\ shell_pc' = "done"
  /\ UNCHANGED <<session_state, api_key, count_before, call_vars, iteration,
                 messages, search_metadata, calls, response, result, pc,
                 blocks_seen, queries_seen, other_seen, completion_call>>

ShellNext ==
  \/ RerunNoKey
  \/ RerunForm
  \/ RerunEmptyQuestion
  \/ RerunQuickSearch
  \/ RerunComprehensiveSearch
  \/ SendRequest
  \/ OnEndTurn
  \/ OnToolUse
  \/ OnOtherSignal
  \/ ReturnIncomplete
  \/ QuickReceive
  \/ UpstreamError
  \/ ShowQuickResults
  \/ ShowComprehensiveResults
  \/ MetricKeyError
  \/ SearchFailed

ShellSpec == Init /\ [][ShellNext]_vars

\* ----------------------------------------------------------------- claims
InCall == caller # "none"

\* The tool_result blocks of a user message that reference identifier id.
AnswersOf(content, id) ==
  { k \in DOMAIN content :
      content[k].type = "tool_result" /\ content[k].tool_use_id = id }

\* Every tool_use block of an assistant message has exactly one tool_result
\* with its identifier in the next message, which is a user message.
Answered(msgs) ==
  \A i \in DOMAIN msgs :
    msgs[i].role = "assistant" =>
      /\ i < Len(msgs)
      /\ msgs[i + 1].role = "user"
      /\ \A j \in DOMAIN msgs[i].content :
           msgs[i].content[j].type = "tool_use" =>
             Cardinality(AnswersOf(msgs[i + 1].content, msgs[i].content[j].id)) = 1

\* The texts of the text blocks, joined in order (built from the right).
RECURSIVE JoinTexts(_)
JoinTexts(content) ==
  LET texts == SelectSeq(content, LAMBDA b : b.type = "text")
  IN IF texts = <<>> THEN ""
     ELSE JoinTexts(SubSeq(texts, 1, Len(texts) - 1)) \o texts[Len(texts)].text

NaturalExit == response.stop_reason = "end_turn"

\* C1: in comprehensive_search, whenever a request is about to be issued or
\* is in flight, every tool_use block of every assistant message of the
\* conversation is answered by exactly one tool_result block with the same
\* identifier in the user message that follows it.
C1_ToolUseAnswered ==
  (InCall /\ method = "comp" /\ pc \in {"loop", "await"}) => Answered(messages)

C1_Witness ==
  /\ InCall /\ method = "comp" /\ pc = "await" /\ calls = 2
  /\ Len(messages) = 3
  /\ Len(messages[2].content) = 2
  /\ \A j \in 1..2 : messages[2].content[j].type = "tool_use"

\* C2: one invocation of comprehensive_search issues at most max_iterations
\* requests, whatever the upstream answers; once that many have been
\* answered without completion no further request can go out and the
\* method returns.
C2_AtMostCapRequests ==
  (InCall /\ method = "comp") =>
    /\ calls <= max_iterations
    /\ (pc = "loop" /\ calls = max_iterations) =>
         (ENABLED ReturnIncomplete /\ ~ENABLED SendRequest)

C2_Witness ==
  /\ InCall /\ method = "comp" /\ pc = "returned"
  /\ max_iterations = 3 /\ calls = 3
  /\ other_seen /\ Len(messages) > 1

\* C3: after a response whose termination signal is neither end_turn nor
\* tool_use, comprehensive_search issues no further request and returns no
\* normal result.
C3_OtherSignalIsAnError ==
  (InCall /\ method = "comp" /\ question # "" /\ other_seen) =>
    pc \notin {"await", "returned"}

\* C4: with the empty string as question, quick_search and
\* comprehensive_search issue no upstream request.
C4_EmptyQuestionNoRequest ==
  (InCall /\ question = "") => calls = 0

\* C5: on a normal return of comprehensive_search, metadata.total_iterations
\* is present exactly on the natural-completion exit, where it equals the
\* number of requests issued; on the cap-exhaustion exit findings is the
\* fixed incomplete-search message.
C5_TotalIterations ==
  (InCall /\ method = "comp" /\ pc = "returned") =>
    /\ ("total_iterations" \in DOMAIN result.metadata) <=> NaturalExit
    /\ NaturalExit => result.metadata.total_iterations = calls
    /\ ~NaturalExit =>
         /\ result.findings = INCOMPLETE
         /\ "total_iterations" \notin DOMAIN result.metadata

C5_Witness ==
  /\ InCall /\ method = "comp" /\ pc = "returned" /\ NaturalExit
  /\ calls = 2 /\ result.metadata.total_iterations = 2
  /\ result.metadata.tool_uses = 1

\* C6: on a normal return of comprehensive_search, metadata.searches_performed
\* lists the query of every web_search tool_use block of all the responses
\* received, in call order.
C6_SearchesPerformed ==
  (InCall /\ method = "comp" /\ pc = "returned") =>
    result.metadata.searches_performed = queries_seen

\* C7: when end_turn first arrives on request k, comprehensive_search returns
\* right then, having issued exactly k requests, and findings is the in-order
\* concatenation of the text blocks of that response.
C7_CompletionOnCallK ==
  (InCall /\ method = "comp" /\ completion_call # 0) =>
    /\ pc = "returned"
    /\ NaturalExit
    /\ calls = completion_call
    /\ result.findings = JoinTexts(response.content)

C7_Witness ==
  /\ InCall /\ method = "comp" /\ pc = "returned"
  /\ max_iterations > 2 /\ completion_call = 2 /\ calls = 2
  /\ Len(response.content) = 2
  /\ result.findings = "Part A. Part B."

HasTextBlock(content) == \E j \in DOMAIN content : content[j].type = "text"

HasNonEmptyText(content) ==
  \E j \in DOMAIN content : content[j].type = "text" /\ content[j].text # ""

\* C8 as stated: for a non-empty question quick_search issues exactly one
\* request and returns a non-empty string when the response has at least one
\* text block, the empty string when it has none.
C8_NonEmptyIffTextBlock ==
  (InCall /\ method = "quick" /\ question # "" /\ pc = "returned") =>
    /\ calls = 1
    /\ HasTextBlock(response.content) => result # ""
    /\ ~HasTextBlock(response.content) => result = ""

\* C8 amended: for a non-empty question quick_search issues exactly one
\* request and returns the in-order concatenation of the response's text
\* blocks: non-empty when some text block has non-empty text, the empty
\* string when the response has no text block or only empty ones.
C8_ConcatenatedText ==
  (InCall /\ method = "quick" /\ question # "") =>
    /\ calls = 1
    /\ pc = "returned" =>
         /\ result = JoinTexts(response.content)
         /\ (result # "") <=> HasNonEmptyText(response.content)

C8_Witness ==
  /\ InCall /\ method = "quick" /\ question # "" /\ pc = "returned"
  /\ Len(response.content) = 2
  /\ response.content[1].type = "tool_use"
  /\ result = "Part B."

\* C9: whenever main() reaches a search, the session's cached searcher was
\* constructed with the API key currently entered in the sidebar.
C9_SearcherHasEnteredKey ==
  (caller = "shell" /\ shell_pc = "running") =>
    /\ session_state["searcher"].api_key = api_key
    /\ client_key = api_key

\* C10: whenever comprehensive_search returns normally to the shell, the
\* shell shows the findings rather than a failure and search_count grows by
\* exactly one; search_count stays unchanged only when the call raised.
C10_NormalReturnIsCounted ==
  (caller = "shell" /\ method = "comp" /\ shell_pc = "done") =>
    /\ pc = "returned" =>
         /\ view = "results"
         /\ session_state["search_count"] = count_before + 1
    /\ session_state["search_count"] = count_before => pc = "raised"

====
